---- MODULE Spec2Model ----
(***************************************************************************)
(* chessmeet backend (backend/src/index.ts): the GameRoom and              *)
(* MatchingQueue Durable Objects.                                          *)
(*                                                                         *)
(* A Durable Object runs its handlers on one thread.  A handler gives up   *)
(* the thread at every await.  While a handler awaits a storage operation  *)
(* (this.ctx.storage.get/put/delete) the object's input gate is closed and *)
(* no other event is delivered to the object; while it awaits anything     *)
(* else (an outbound fetch(), the request body) the gate is open and other *)
(* events of the object may start.  Each action below is one run of a      *)
(* handler from one such scheduling point to the next.                     *)
(***************************************************************************)
EXTENDS Integers, Sequences, FiniteSets, TLC

VARIABLES
    \* ---- GameRoom ----
    fen,          \* storage key "fen": NoFen or a serialized position
    sockets,      \* this.ctx.getWebSockets(): the accepted, still open channels
    broken,       \* channels still in getWebSockets() on which ws.send() throws
    boards,       \* per channel, the position its client shows (GamePage game)
    outbox,       \* per channel, the frames ws.send() has delivered to it
    arrivals,     \* inbound frames not yet handed to webSocketMessage, oldest first
    handlers,     \* webSocketMessage invocations in flight: frame id -> locals
    outcome,      \* per frame id, how its webSocketMessage invocation ended
    nArrived,     \* frames that have arrived so far (the next frame id - 1)
    nConnects,    \* /ws upgrades served so far
    nFaults,      \* storage failures and crashes so far
    arrivalChess, \* the validator folded over the arrived frames, in arrival order
    allLegal,     \* every frame processed so far was a move the validator accepted
    moveLog,      \* while allLegal: the descriptors processed so far, in order
    \* ---- GameRoom /call ----
    meetingId,    \* storage key "meetingId": NoMeeting or a meeting id
    calls,        \* POST /call invocations in flight: call id -> locals
    callResp,     \* per call id, the response returned (NoResp before it returns)
    nCalls,       \* POST /call requests started so far
    created,      \* meetings the media service has created, in creation order
    nTokens,      \* participant tokens the media service has issued
    \* ---- MatchingQueue ----
    waiting,      \* storage key "waiting": NoWaiting or [playerId |-> id]
    joins,        \* fetch invocations in flight: join id -> locals
    joinResp,     \* per join id, the response returned (NoResp before it returns)
    nJoins,       \* join requests started so far
    nUuid,        \* crypto.randomUUID() values drawn so far by the queue
    nWrites,      \* writes (put, delete) of "waiting" so far; a waiting entry
                  \* is known by the number of the put that stored it
    \* ---- the Worker's fetch (router) and the rooms behind it ----
    rooms,        \* per room name, that GameRoom's storage and open channels
    last,         \* the latest request or frame, where it went, what was returned
    nRouted,      \* requests and frames so far
    nMeetings     \* meetings the media service has created for these rooms

roomVars  == <<fen, sockets, broken, boards, outbox, arrivals, handlers, outcome, nArrived,
               nConnects, nFaults, arrivalChess, allLegal, moveLog>>
callVars  == <<meetingId, calls, callResp, nCalls, created, nTokens>>
queueVars == <<waiting, joins, joinResp, nJoins, nUuid, nWrites>>
routerVars == <<rooms, last, nRouted, nMeetings>>
vars      == <<roomVars, callVars, queueVars, routerVars>>

(***************************************************************************)
(* Bounds of the model.                                                    *)
(***************************************************************************)
MaxFrames   == 3   \* inbound frames per behaviour
MaxPending  == 2   \* frames that may wait undelivered at once
MaxConnects == 2   \* /ws upgrades per behaviour
MaxFaults   == 1   \* storage failures and crashes per behaviour
MaxCalls    == 3   \* POST /call requests per behaviour
MaxJoins    == 4   \* join requests per behaviour
MaxRequests == 3   \* frames and POST /call requests together, where both occur
MaxRouted   == 4   \* requests and frames seen by the router and its rooms

Channels == {"c1", "c2"}

(***************************************************************************)
(* The position validator (chess.js), restricted to the e-file with one    *)
(* white pawn on e2 and one black pawn on e7.  A square is its rank.       *)
(***************************************************************************)
Ranks == 2..7

NewChess ==
    [board |-> [r \in Ranks |-> IF r = 2 THEN "P" ELSE IF r = 7 THEN "p" ELSE "."],
     turn |-> "w", moveNumber |-> 1]

\* chess.fen(): ranks are listed from the top (rank 7) down, an empty square
\* as "1"; then the side to move and the full-move number.
ToFen(chess) ==
    [placement |-> [i \in 1..6 |-> IF chess.board[8 - i] = "." THEN "1"
                                   ELSE chess.board[8 - i]],
     turn |-> chess.turn, fullmove |-> chess.moveNumber]

\* A loader that reads the placement and the move number but not the side to
\* move.
LoadFenWhiteToMove(f) ==
    [board |-> [r \in Ranks |-> IF f.placement[8 - r] = "1" THEN "."
                                ELSE f.placement[8 - r]],
     turn |-> "w", moveNumber |-> f.fullmove]

\* new Chess(fen)
LoadFen(f) ==
    [board |-> [r \in Ranks |-> IF f.placement[8 - r] = "1" THEN "."
                                ELSE f.placement[8 - r]],
     turn |-> f.turn, moveNumber |-> f.fullmove]

NoMove == [from |-> 0, to |-> 0]      \* data.move undefined or not a descriptor

\* A rejected move leaves the Chess object as it was.
Illegal(chess) == [ok |-> FALSE, chess |-> chess]

\* chess.move({from, to, promotion}): a pawn of the side to move steps one
\* square forward onto an empty square, or two from its home rank over an empty
\* square.  Anything else is rejected (null or a thrown error, by version).
Move(chess, m) ==
    IF m.from \notin Ranks \/ m.to \notin Ranks THEN Illegal(chess)
    ELSE LET white == chess.turn = "w"
             dir   == IF white THEN 1 ELSE -1
             home  == IF white THEN 2 ELSE 7
             pawn  == IF white THEN "P" ELSE "p"
             one   == m.to = m.from + dir /\ chess.board[m.to] = "."
             two   == /\ m.from = home
                      /\ m.to = m.from + 2 * dir
                      /\ chess.board[m.from + dir] = "."
                      /\ chess.board[m.to] = "."
         IN IF chess.board[m.from] = pawn /\ (one \/ two)
            THEN [ok |-> TRUE,
                  chess |-> [board |-> [chess.board EXCEPT ![m.from] = ".",
                                                           ![m.to] = pawn],
                             turn |-> IF white THEN "b" ELSE "w",
                             moveNumber |-> IF white THEN chess.moveNumber
                                            ELSE chess.moveNumber + 1]]
            ELSE Illegal(chess)

\* The validator folded over a sequence of descriptors.
RECURSIVE FoldMoves(_, _)
FoldMoves(chess, ms) ==
    IF ms = <<>> THEN [ok |-> TRUE, chess |-> chess]
    ELSE LET r == Move(chess, Head(ms))
         IN IF r.ok THEN FoldMoves(r.chess, Tail(ms)) ELSE r

\* The descriptors clients submit in this model: e2-e4, e7-e6 and e4-e5, each
\* legal in some positions and illegal in others.
InputMoves ==
    { [from |-> 2, to |-> 4], [from |-> 7, to |-> 6], [from |-> 4, to |-> 5] }

(***************************************************************************)
(* Inbound frames.  json: JSON.parse accepts the text.                     *)
(***************************************************************************)
MoveFrame(m) == [json |-> TRUE, type |-> "move", move |-> m]
ResetFrame   == [json |-> TRUE, type |-> "reset", move |-> NoMove]
NoDescFrame  == [json |-> TRUE, type |-> "move", move |-> NoMove]
OtherFrame   == [json |-> TRUE, type |-> "ping", move |-> NoMove]
GarbageFrame == [json |-> FALSE, type |-> "", move |-> NoMove]

Frames == {MoveFrame(m) : m \in InputMoves}
            \cup {ResetFrame, NoDescFrame, OtherFrame, GarbageFrame}

NoFen == [placement |-> <<>>, turn |-> "", fullmove |-> 0]

\* An update that carries the position read at the start of the handler.
UpdateFrameStale(f, m, id) ==
    [type |-> "update", fen |-> fen, lastMove |-> m, src |-> id]

\* Outbound frames.  src is the id of the inbound frame whose handler sent it.
UpdateFrame(f, m, id) == [type |-> "update", fen |-> f, lastMove |-> m, src |-> id]

(***************************************************************************)
(* GameRoom: the channel endpoint and webSocketMessage.                    *)
(***************************************************************************)
EmptyMap == [k \in {} |-> 0]

Without(f, k) == [x \in DOMAIN f \ {k} |-> f[x]]

With(f, k, v) == [x \in DOMAIN f \cup {k} |-> IF x = k THEN v ELSE f[x]]

\* A room that delivers events whether or not a storage operation is pending.
InputGateIgnored == TRUE

\* The input gate: no event is delivered to the room while one of its handlers
\* awaits a storage operation.
InputGateOpen == \A h \in DOMAIN handlers : handlers[h].pc \notin {"get", "put"}

\* A handler that takes whatever chess.move() returns for an accepted move.
MoveAcceptedUnchecked(r) == TRUE

\* if (move) { ... }: the validator's answer counts as an accepted move.
MoveAccepted(r) == r.ok

\* A handler that validates against new Chess() instead of the stored position.
CurrentFenIgnoringStore == ToFen(NewChess)

\* (await this.ctx.storage.get("fen")) || new Chess().fen()
CurrentFen == IF fen = NoFen THEN ToFen(NewChess) ELSE fen

\* A reset that stores chess.fen(), the position it has just loaded.
ResetFenKeepsPosition == CurrentFen

\* new Chess().fen(), the position a reset stores.
ResetFen == ToFen(NewChess)

\* A broadcast that stops after the first channel.
BroadcastToFirst(msg) ==
    LET first == IF "c1" \in sockets THEN "c1" ELSE "c2"
    IN [c \in Channels |-> IF c \in sockets /\ c = first
                           THEN Append(outbox[c], msg) ELSE outbox[c]]

\* A room that sends to every channel it ever admitted.
BroadcastToEveryone(msg) ==
    [c \in Channels |-> Append(outbox[c], msg)]

\* A forEach whose body has no try/catch: the first send that throws ends it.
BroadcastUntilThrow(msg) ==
    [c \in Channels |-> IF /\ c \in sockets \ broken
                            /\ ~(c = "c2" /\ "c1" \in broken)
                         THEN Append(outbox[c], msg) ELSE outbox[c]]

\* this.ctx.getWebSockets().forEach(ws => { try { ws.send(msg) } catch (e) {} })
Broadcast(msg) ==
    [c \in Channels |-> IF c \in sockets \ broken
                         THEN Append(outbox[c], msg) ELSE outbox[c]]

\* What one frame does to a position when frames are handled one at a time.
FrameEffect(chess, msg) ==
    IF ~msg.json THEN chess
    ELSE IF msg.type = "move"
         THEN (IF Move(chess, msg.move).ok THEN Move(chess, msg.move).chess ELSE chess)
    ELSE IF msg.type = "reset" THEN NewChess
    ELSE chess

\* An upgrade that stores the starting position whatever is stored.
ConnectFenAlwaysInitial == ToFen(NewChess)

\* if (!storedFen) await this.ctx.storage.put("fen", new Chess().fen())
ConnectFen == IF fen = NoFen THEN ToFen(NewChess) ELSE fen

\* GamePage.onDrop: the client plays the move on its own board and, if its
\* validator takes it, shows the result without waiting for the room.
OnDrop(board, msg) ==
    IF msg.json /\ msg.type = "move" /\ Move(LoadFen(board), msg.move).ok
    THEN ToFen(Move(LoadFen(board), msg.move).chess)
    ELSE board

\* ws.onmessage: a client that is sent an update shows the position it carries.
OnMessage(out) ==
    [c \in Channels |-> IF out[c] # outbox[c] THEN out[c][Len(out[c])].fen
                         ELSE boards[c]]

\* GET /ws with Upgrade: websocket.  Both awaits are storage operations, so the
\* handler runs to its end without another event in between.
Connect(c) ==
    /\ InputGateOpen
    /\ nConnects < MaxConnects
    /\ c \notin sockets
    /\ nConnects' = nConnects + 1
    /\ fen' = ConnectFen
    /\ sockets' = sockets \cup {c}
    /\ boards' = [boards EXCEPT ![c] = ToFen(NewChess)]
    /\ UNCHANGED <<broken, outbox, arrivals, handlers, outcome, nArrived, nFaults,
                   arrivalChess, allLegal, moveLog>>
    /\ UNCHANGED <<callVars, queueVars, routerVars>>

\* The peer closes channel c: the runtime drops it from getWebSockets().
Disconnect(c) ==
    /\ c \in sockets
    /\ sockets' = sockets \ {c}
    /\ broken' = broken \ {c}
    /\ UNCHANGED <<boards, fen, outbox, arrivals, handlers, outcome, nArrived, nConnects,
                   nFaults, arrivalChess, allLegal, moveLog>>
    /\ UNCHANGED <<callVars, queueVars, routerVars>>

\* The peer of channel c is gone but its close has not reached the room: c is
\* still returned by getWebSockets() and ws.send() on it throws.
Break(c) ==
    /\ c \in sockets \ broken
    /\ broken' = broken \cup {c}
    /\ UNCHANGED <<boards, fen, sockets, outbox, arrivals, handlers, outcome, nArrived,
                   nConnects, nFaults, arrivalChess, allLegal, moveLog>>
    /\ UNCHANGED <<callVars, queueVars, routerVars>>

\* ws.send(frame): a frame from channel c reaches the room.
Arrive(c, msg) ==
    /\ c \in sockets \ broken
    /\ nArrived < MaxFrames
    /\ Len(arrivals) < MaxPending
    /\ nArrived' = nArrived + 1
    /\ arrivals' = Append(arrivals, [id |-> nArrived + 1, ch |-> c, msg |-> msg])
    /\ arrivalChess' = FrameEffect(arrivalChess, msg)
    /\ UNCHANGED <<broken, fen, sockets, outbox, handlers, outcome, nConnects, nFaults,
                   allLegal, moveLog>>
    /\ UNCHANGED <<callVars, queueVars, routerVars>>

\* A frame from channel c, whatever program is at the other end of it.
Send(c, msg) ==
    /\ Arrive(c, msg)
    /\ UNCHANGED boards

\* GamePage.onDrop on the client of channel c: the move is played on the
\* client's board; if its validator takes it the client shows the result and
\* sends the move, else nothing is sent.
ClientMove(c, m) ==
    /\ Move(LoadFen(boards[c]), m).ok
    /\ boards' = [boards EXCEPT ![c] = OnDrop(boards[c], MoveFrame(m))]
    /\ Arrive(c, MoveFrame(m))

\* The reset button of GamePage: the frame is sent, the board waits for the
\* update.
ClientReset(c) ==
    /\ Arrive(c, ResetFrame)
    /\ UNCHANGED boards

\* webSocketMessage starts on the oldest undelivered frame: JSON.parse, then
\* await this.ctx.storage.get("fen").
Deliver ==
    /\ InputGateOpen
    /\ arrivals # <<>>
    /\ LET a == Head(arrivals)
       IN /\ arrivals' = Tail(arrivals)
          /\ IF a.msg.json
             THEN /\ handlers' = With(handlers, a.id, [pc |-> "get", ws |-> a.ch,
                                                       msg |-> a.msg, newFen |-> NoFen])
                  /\ UNCHANGED <<outcome, allLegal, moveLog>>
             ELSE /\ outcome' = [outcome EXCEPT ![a.id] = "threw"]
                  /\ allLegal' = FALSE
                  /\ moveLog' = <<>>
                  /\ UNCHANGED handlers
    /\ UNCHANGED <<boards, fen, sockets, broken, outbox, nArrived, nConnects, nFaults,
                   arrivalChess>>
    /\ UNCHANGED <<callVars, queueVars, routerVars>>

\* A room that lets c1 move only for White and c2 only for Black.
AcceptsOwnSideOnly(ws, r) ==
    MoveAccepted(r) /\ (ws = "c1" <=> r.chess.turn = "b")

\* A handler whose second branch is a plain else: whatever is not a move
\* resets the game.
IsResetOrUnknown(data) == data.type # "move"

\* else if (data.type === "reset")
IsReset(data) == data.type = "reset"

\* webSocketMessage(ws, message) uses ws nowhere: whether the move is taken is
\* the validator's verdict alone.
Accepts(ws, r) == MoveAccepted(r)

\* The read of "fen" returns: validate and, if there is something to store,
\* await this.ctx.storage.put("fen", ...).
GetDone(h) ==
    /\ h \in DOMAIN handlers
    /\ handlers[h].pc = "get"
    /\ LET msg == handlers[h].msg
           r   == Move(LoadFen(CurrentFen), msg.move)
       IN CASE msg.type = "move" /\ Accepts(handlers[h].ws, r) ->
                 /\ handlers' = [handlers EXCEPT ![h].pc = "put",
                                                 ![h].newFen = ToFen(r.chess)]
                 /\ moveLog' = IF allLegal THEN Append(moveLog, msg.move) ELSE <<>>
                 /\ UNCHANGED <<outcome, allLegal>>
            [] msg.type = "move" /\ ~Accepts(handlers[h].ws, r) ->
                 /\ handlers' = Without(handlers, h)
                 /\ outcome' = [outcome EXCEPT ![h] = "rejected"]
                 /\ allLegal' = FALSE
                 /\ moveLog' = <<>>
            [] IsReset(msg) ->
                 /\ handlers' = [handlers EXCEPT ![h].pc = "put",
                                                 ![h].newFen = ResetFen]
                 /\ allLegal' = FALSE
                 /\ moveLog' = <<>>
                 /\ UNCHANGED outcome
            [] OTHER ->
                 /\ handlers' = Without(handlers, h)
                 /\ outcome' = [outcome EXCEPT ![h] = "ignored"]
                 /\ allLegal' = FALSE
                 /\ moveLog' = <<>>
    /\ UNCHANGED <<boards, fen, sockets, broken, outbox, arrivals, nArrived, nConnects,
                   nFaults, arrivalChess>>
    /\ UNCHANGED <<callVars, queueVars, routerVars>>

\* The write of "fen" completes: broadcast the update and return.
PutDone(h) ==
    /\ h \in DOMAIN handlers
    /\ handlers[h].pc = "put"
    /\ LET msg == handlers[h].msg
           new == handlers[h].newFen
       IN /\ fen' = new
          /\ outbox' = Broadcast(UpdateFrame(new, msg.move, h))
          /\ outcome' = [outcome EXCEPT ![h] = IF msg.type = "move" THEN "accepted"
                                               ELSE "reset"]
    /\ handlers' = Without(handlers, h)
    /\ boards' = OnMessage(outbox')
    /\ UNCHANGED <<broken, sockets, arrivals, nArrived, nConnects, nFaults, arrivalChess,
                   allLegal, moveLog>>
    /\ UNCHANGED <<callVars, queueVars, routerVars>>

\* A handler that broadcasts before it awaits the write, when the write fails.
PutFailAfterBroadcast(h) ==
    /\ h \in DOMAIN handlers
    /\ handlers[h].pc = "put"
    /\ nFaults < MaxFaults
    /\ nFaults' = nFaults + 1
    /\ handlers' = Without(handlers, h)
    /\ outcome' = [outcome EXCEPT ![h] = "putFailed"]
    /\ outbox' = Broadcast(UpdateFrame(handlers[h].newFen, handlers[h].msg.move, h))
    /\ boards' = OnMessage(outbox')
    /\ UNCHANGED <<broken, fen, sockets, arrivals, nArrived, nConnects,
                   arrivalChess, allLegal, moveLog>>
    /\ UNCHANGED <<callVars, queueVars, routerVars>>

\* The write of "fen" fails: put() rejects.  In the move branch the catch
\* swallows the error, in the reset branch it leaves the handler; either way
\* the broadcast that follows the await is not reached.
PutFail(h) ==
    /\ h \in DOMAIN handlers
    /\ handlers[h].pc = "put"
    /\ nFaults < MaxFaults
    /\ nFaults' = nFaults + 1
    /\ handlers' = Without(handlers, h)
    /\ outcome' = [outcome EXCEPT ![h] = "putFailed"]
    /\ UNCHANGED <<boards, broken, fen, sockets, outbox, arrivals, nArrived, nConnects,
                   arrivalChess, allLegal, moveLog>>
    /\ UNCHANGED <<callVars, queueVars, routerVars>>

\* The room's process stops: handlers in flight, undelivered frames and open
\* channels are gone; storage stays.
Crash ==
    /\ nFaults < MaxFaults
    /\ DOMAIN handlers # {}
    /\ nFaults' = nFaults + 1
    /\ handlers' = EmptyMap
    /\ arrivals' = <<>>
    /\ sockets' = {}
    /\ broken' = {}
    /\ outcome' = [i \in DOMAIN outcome |->
                     IF i \in DOMAIN handlers THEN "crashed"
                     ELSE IF \E k \in DOMAIN arrivals : arrivals[k].id = i THEN "lost"
                     ELSE outcome[i]]
    /\ UNCHANGED <<boards, fen, outbox, nArrived, nConnects, arrivalChess, allLegal, moveLog>>
    /\ UNCHANGED <<callVars, queueVars, routerVars>>

RoomInit ==
    /\ fen = NoFen
    /\ sockets = {}
    /\ broken = {}
    /\ boards = [c \in Channels |-> ToFen(NewChess)]
    /\ outbox = [c \in Channels |-> <<>>]
    /\ arrivals = <<>>
    /\ handlers = EmptyMap
    /\ outcome = [i \in 1..MaxFrames |-> "none"]
    /\ nArrived = 0
    /\ nConnects = 0
    /\ nFaults = 0
    /\ arrivalChess = NewChess
    /\ allLegal = TRUE
    /\ moveLog = <<>>

(***************************************************************************)
(* GameRoom: POST /call.  The two fetch() calls to the media service are   *)
(* awaited with the input gate open, so other requests of the room may     *)
(* start while one is pending.                                             *)
(***************************************************************************)
NoMeeting == 0

NoCallResp == [status |-> "none", meetingId |-> NoMeeting, authToken |-> 0]

\* let meetingId = await this.ctx.storage.get("meetingId"); with none stored
\* the handler goes on to fetch(.../meetings), else to fetch(.../participants).
CallStart ==
    /\ InputGateOpen
    /\ nCalls < MaxCalls
    /\ nCalls' = nCalls + 1
    /\ calls' = With(calls, nCalls + 1,
                     [pc |-> IF meetingId = NoMeeting THEN "create" ELSE "add",
                      meetingId |-> meetingId])
    /\ UNCHANGED <<meetingId, callResp, created, nTokens>>
    /\ UNCHANGED <<roomVars, queueVars, routerVars>>

\* The create-meeting call returns.  On success the service has minted a new
\* meeting; the handler stores its id and goes on to add a participant.  On
\* failure the handler throws and the catch answers {error}.
CreateMeetingReturn(k, ok) ==
    /\ k \in DOMAIN calls
    /\ calls[k].pc = "create"
    /\ InputGateOpen
    /\ IF ok
       THEN LET id == Len(created) + 1
            IN /\ created' = Append(created, k)
               /\ meetingId' = id
               /\ calls' = [calls EXCEPT ![k].pc = "add", ![k].meetingId = id]
               /\ UNCHANGED callResp
       ELSE /\ calls' = Without(calls, k)
            /\ callResp' = [callResp EXCEPT ![k] = [NoCallResp EXCEPT !.status = "error"]]
            /\ UNCHANGED <<created, meetingId>>
    /\ UNCHANGED <<nCalls, nTokens>>
    /\ UNCHANGED <<roomVars, queueVars, routerVars>>

\* A room that keeps the last token it was issued and hands it out again.
AuthTokenCached == IF nTokens = 0 THEN nTokens + 1 ELSE nTokens

\* authToken: participantData.data.token, the token the media service issued
\* for this add-participant call (made under a new crypto.randomUUID()).
AuthToken == nTokens + 1

\* A catch block that also tells the room's channels about the failure.
AddParticipantReturnTellsRoom(k, ok) ==
    /\ k \in DOMAIN calls
    /\ calls[k].pc = "add"
    /\ InputGateOpen
    /\ IF ok
       THEN /\ nTokens' = nTokens + 1
            /\ callResp' = [callResp EXCEPT ![k] =
                              [status |-> "ok", meetingId |-> calls[k].meetingId,
                               authToken |-> nTokens + 1]]
            /\ UNCHANGED outbox
       ELSE /\ callResp' = [callResp EXCEPT ![k] = [NoCallResp EXCEPT !.status = "error"]]
            /\ outbox' = Broadcast([type |-> "error", fen |-> NoFen,
                                    lastMove |-> NoMove, src |-> k])
            /\ UNCHANGED nTokens
    /\ calls' = Without(calls, k)
    /\ UNCHANGED <<meetingId, nCalls, created>>
    /\ UNCHANGED <<fen, sockets, broken, boards, arrivals, handlers, outcome,
                   nArrived, nConnects, nFaults, arrivalChess, allLegal, moveLog>>
    /\ UNCHANGED <<queueVars, routerVars>>

\* A catch block that deletes the stored meeting when no token was issued.
AddParticipantReturnForgetsMeeting(k, ok) ==
    /\ k \in DOMAIN calls
    /\ calls[k].pc = "add"
    /\ InputGateOpen
    /\ IF ok
       THEN /\ nTokens' = nTokens + 1
            /\ callResp' = [callResp EXCEPT ![k] =
                              [status |-> "ok", meetingId |-> calls[k].meetingId,
                               authToken |-> nTokens + 1]]
            /\ UNCHANGED meetingId
       ELSE /\ callResp' = [callResp EXCEPT ![k] = [NoCallResp EXCEPT !.status = "error"]]
            /\ meetingId' = NoMeeting
            /\ UNCHANGED nTokens
    /\ calls' = Without(calls, k)
    /\ UNCHANGED <<nCalls, created>>
    /\ UNCHANGED <<roomVars, queueVars, routerVars>>

\* The add-participant call returns: answer {authToken, appId, meetingId}, or
\* {error} on failure.
AddParticipantReturn(k, ok) ==
    /\ k \in DOMAIN calls
    /\ calls[k].pc = "add"
    /\ InputGateOpen
    /\ IF ok
       THEN /\ nTokens' = nTokens + 1
            /\ callResp' = [callResp EXCEPT ![k] =
                              [status |-> "ok", meetingId |-> calls[k].meetingId,
                               authToken |-> AuthToken]]
       ELSE /\ callResp' = [callResp EXCEPT ![k] = [NoCallResp EXCEPT !.status = "error"]]
            /\ UNCHANGED nTokens
    /\ calls' = Without(calls, k)
    /\ UNCHANGED <<meetingId, nCalls, created>>
    /\ UNCHANGED <<roomVars, queueVars, routerVars>>

CallInit ==
    /\ meetingId = NoMeeting
    /\ calls = EmptyMap
    /\ callResp = [i \in 1..MaxCalls |-> NoCallResp]
    /\ nCalls = 0
    /\ created = <<>>
    /\ nTokens = 0

(***************************************************************************)
(* MatchingQueue.fetch.  The read of "waiting" comes first; the request    *)
(* body is awaited after it with the input gate open, so other joins may   *)
(* start, and finish, between a join's read of the slot and its write.     *)
(***************************************************************************)
NoId == [kind |-> "none", n |-> 0]

ClientId(n) == [kind |-> "client", n |-> n]

\* crypto.randomUUID(): the n-th value drawn; no two draws are equal and none
\* equals an identifier a client chose.
RandomUUID(n) == [kind |-> "uuid", n |-> n]

NoWaiting == [playerId |-> NoId, entry |-> 0]

ClientIds == {ClientId(1), ClientId(2)}

\* In a response, as is the identifier the join was handled under, entry the
\* waiting entry it read and seen the number of slot writes it had read after.
\* Request bodies: {playerId: id}, {} and text that is not JSON.
Bodies == [json : {TRUE}, playerId : ClientIds \cup {NoId}]
            \cup {[json |-> FALSE, playerId |-> NoId]}

NoJoinResp ==
    [status |-> "none", gameId |-> NoId, color |-> "", opponentId |-> NoId,
     as |-> NoId, entry |-> 0, seen |-> 0]

\* const waitingPlayer = await this.ctx.storage.get("waiting"), then the
\* handler awaits request.json().  seen is the number of writes of the slot
\* at the time of the read.
JoinStart(body) ==
    /\ nJoins < MaxJoins
    /\ nJoins' = nJoins + 1
    /\ joins' = With(joins, nJoins + 1,
                     [pc |-> "body", waitingPlayer |-> waiting, body |-> body,
                      seen |-> nWrites])
    /\ UNCHANGED <<waiting, joinResp, nUuid, nWrites>>
    /\ UNCHANGED <<roomVars, callVars, routerVars>>

\* A handler that uses body.playerId as it comes, absent or not.
IncomingPlayerIdFromBody(body) == body.playerId

\* body.playerId || crypto.randomUUID()
IncomingPlayerId(body) ==
    IF body.playerId # NoId THEN body.playerId ELSE RandomUUID(nUuid + 1)

\* A queue that never recognises the waiting player's own retry.
SameWaitingNever(waitingPlayer, incoming) == FALSE

\* A queue that recognises a retry only under an identifier it generated.
SameWaitingOnlyGenerated(waitingPlayer, incoming) ==
    waitingPlayer.playerId = incoming /\ incoming.kind = "uuid"

\* waitingPlayer.playerId === incomingPlayerId
SameWaiting(waitingPlayer, incoming) == waitingPlayer.playerId = incoming

\* A queue that reports the joining player as the opponent.
OpponentIdSelf(waitingPlayer, incoming) == incoming

\* opponentId: waitingPlayer.playerId
OpponentId(waitingPlayer, incoming) == waitingPlayer.playerId

\* A queue that stores body.playerId, which is absent when the id was generated.
StoredPlayerIdFromBody(body, incoming) == body.playerId

\* put("waiting", { playerId: incomingPlayerId })
StoredPlayerId(body, incoming) == incoming

\* A queue that keeps the gameId it gave the waiting player and hands the same
\* one to the player matched with that player.
MatchedGameIdOfEntry(waitingPlayer, drawn) ==
    LET S == {i \in 1..MaxJoins : /\ joinResp[i].color = "white"
                                  /\ joinResp[i].as = waitingPlayer.playerId}
    IN IF S = {} THEN RandomUUID(drawn + 1)
       ELSE joinResp[CHOOSE i \in S : \A k \in S : k <= i].gameId

\* const gameId = crypto.randomUUID(), in the matched branch
MatchedGameId(waitingPlayer, drawn) == RandomUUID(drawn + 1)

\* A handler that takes a body it cannot read as {}.
ReadableAlways(body) == TRUE

\* const body = await request.json(): returns for JSON text, throws otherwise.
Readable(body) == body.json

\* request.json() returns (or throws): the rest of the handler.  Its only
\* awaits are storage operations, so it runs to its end in one piece.
JoinFinish(j) ==
    /\ j \in DOMAIN joins
    /\ joins[j].pc = "body"
    /\ LET body == joins[j].body
           waitingPlayer == joins[j].waitingPlayer
           incoming == IncomingPlayerId(body)
           drawn == IF body.playerId # NoId THEN nUuid ELSE nUuid + 1
       IN CASE ~Readable(body) ->
                 /\ joinResp' = [joinResp EXCEPT ![j] =
                                   [NoJoinResp EXCEPT !.status = "error"]]
                 /\ UNCHANGED <<waiting, nUuid, nWrites>>
            [] Readable(body) /\ waitingPlayer # NoWaiting
                         /\ SameWaiting(waitingPlayer, incoming) ->
                 /\ joinResp' = [joinResp EXCEPT ![j] =
                                   [NoJoinResp EXCEPT !.status = "waiting",
                                                      !.as = incoming,
                                                      !.entry = waitingPlayer.entry,
                                                      !.seen = joins[j].seen]]
                 /\ nUuid' = drawn
                 /\ UNCHANGED <<waiting, nWrites>>
            [] Readable(body) /\ waitingPlayer # NoWaiting
                         /\ ~SameWaiting(waitingPlayer, incoming) ->
                 /\ waiting' = NoWaiting
                 /\ nWrites' = nWrites + 1
                 /\ nUuid' = drawn + 1
                 /\ joinResp' = [joinResp EXCEPT ![j] =
                                   [status |-> "matched",
                                    gameId |-> MatchedGameId(waitingPlayer, drawn),
                                    color |-> "black",
                                    opponentId |-> OpponentId(waitingPlayer, incoming),
                                    as |-> incoming,
                                    entry |-> waitingPlayer.entry,
                                    seen |-> joins[j].seen]]
            [] Readable(body) /\ waitingPlayer = NoWaiting ->
                 /\ waiting' = [playerId |-> StoredPlayerId(body, incoming),
                                entry |-> nWrites + 1]
                 /\ nWrites' = nWrites + 1
                 /\ nUuid' = drawn + 1
                 /\ joinResp' = [joinResp EXCEPT ![j] =
                                   [status |-> "waiting",
                                    gameId |-> RandomUUID(drawn + 1),
                                    color |-> "white",
                                    opponentId |-> NoId,
                                    as |-> incoming,
                                    entry |-> 0,
                                    seen |-> joins[j].seen]]
    /\ joins' = Without(joins, j)
    /\ UNCHANGED nJoins
    /\ UNCHANGED <<roomVars, callVars, routerVars>>

QueueInit ==
    /\ waiting = NoWaiting
    /\ joins = EmptyMap
    /\ joinResp = [i \in 1..MaxJoins |-> NoJoinResp]
    /\ nJoins = 0
    /\ nUuid = 0
    /\ nWrites = 0

(***************************************************************************)
(* The Worker's fetch: the router in front of the Durable Objects.  Behind *)
(* it each GameRoom is taken one request at a time; what a room does       *)
(* between the awaits of one request is the subject of the sections above. *)
(***************************************************************************)
GameIds == {"g1", "g2"}

NoGameId == ""                  \* pathParts[3] undefined or empty

RoomNames == GameIds \cup {NoGameId}

Methods == {"OPTIONS", "GET", "POST"}

\* url.pathname: /api/queue/join, /api/game/<gameId>/<tail>, anything else.
Paths == {[kind |-> "queue", gameId |-> NoGameId, tail |-> ""],
          [kind |-> "other", gameId |-> NoGameId, tail |-> ""]}
           \cup [kind : {"game"}, gameId : RoomNames, tail : {"ws", "call", ""}]

Requests == [method : Methods, path : Paths, upgrade : BOOLEAN]

\* What the object or the service behind the request does with it.
Outcomes == {"ok", "createFails", "addFails", "throws"}

\* A response: cors is the Access-Control-Allow-Origin: * header, rebuilt is
\* set on a Response the router built anew from another one.
Response(st, c) == [status |-> st, cors |-> c, rebuilt |-> FALSE]

NoResponse == Response(0, FALSE)

\* A helper that rebuilds the response and forgets the header.
AddCorsHeadersMissing(response) == [response EXCEPT !.rebuilt = TRUE]

\* addCorsHeaders: a new Response with the same body and status and the
\* header set.
AddCorsHeaders(response) == [response EXCEPT !.cors = TRUE, !.rebuilt = TRUE]

\* A router that sends every game request to one room.
RoomOfGlobal(gameId) == "g1"

\* env.GAMES.idFromName(gameId): one object per name.
RoomOf(gameId) == gameId

\* A router that forwards whatever the path holds.
MissingGameIdNever(gameId) == FALSE

\* if (!gameId)
MissingGameId(gameId) == gameId = NoGameId

NoRoom == [fen |-> NoFen, meetingId |-> NoMeeting, sockets |-> 0]

\* GameRoom.fetch on room r: POST .../call, .../ws, anything else.
GameRoomFetch(r, request, out) ==
    IF request.path.tail = "call" /\ request.method = "POST"
    THEN LET creates == r.meetingId = NoMeeting /\ out # "createFails"
             room    == IF creates THEN [r EXCEPT !.meetingId = nMeetings + 1] ELSE r
         IN [room |-> room,
             created |-> creates,
             resp |-> IF out = "ok" THEN Response(200, TRUE) ELSE Response(500, TRUE)]
    ELSE IF request.path.tail = "ws"
    THEN IF ~request.upgrade
         THEN [room |-> r, created |-> FALSE, resp |-> Response(426, FALSE)]
         ELSE [room |-> [r EXCEPT !.fen = IF r.fen = NoFen THEN ToFen(NewChess)
                                          ELSE r.fen,
                                  !.sockets = r.sockets + 1],
               created |-> FALSE,
               resp |-> Response(101, FALSE)]
    ELSE [room |-> r, created |-> FALSE, resp |-> Response(200, FALSE)]

\* export default { fetch }: where the request goes and what is returned.  A
\* MatchingQueue that throws (request.json() on a bad body) makes the router
\* throw: no response is returned.
Router(request, out) ==
    IF request.method = "OPTIONS"
    THEN [to |-> "router", rooms |-> rooms, created |-> FALSE,
          resp |-> Response(200, TRUE)]
    ELSE IF request.path.kind = "queue"
    THEN [to |-> "queue", rooms |-> rooms, created |-> FALSE,
          resp |-> IF out = "throws" THEN NoResponse
                   ELSE AddCorsHeaders(Response(200, FALSE))]
    ELSE IF request.path.kind = "game"
    THEN IF MissingGameId(request.path.gameId)
         THEN [to |-> "router", rooms |-> rooms, created |-> FALSE,
               resp |-> Response(400, TRUE)]
         ELSE LET id == RoomOf(request.path.gameId)
                  r  == GameRoomFetch(rooms[id], request, out)
              IN [to |-> id, rooms |-> [rooms EXCEPT ![id] = r.room],
                  created |-> r.created,
                  resp |-> IF r.resp.status = 101 THEN r.resp
                           ELSE AddCorsHeaders(r.resp)]
    ELSE [to |-> "router", rooms |-> rooms, created |-> FALSE,
          resp |-> Response(200, TRUE)]

\* One request through the Worker.
Fetch(request, out) ==
    /\ nRouted < MaxRouted
    /\ nRouted' = nRouted + 1
    /\ LET res == Router(request, out)
       IN /\ rooms' = res.rooms
          /\ nMeetings' = IF res.created THEN nMeetings + 1 ELSE nMeetings
          /\ last' = [kind |-> "http", req |-> request, frame |-> OtherFrame,
                      to |-> res.to, resp |-> res.resp]
    /\ UNCHANGED <<roomVars, callVars, queueVars>>

\* One frame on a channel of room g, through webSocketMessage of that room.
RoomFrame(g, msg) ==
    /\ nRouted < MaxRouted
    /\ rooms[g].sockets > 0
    /\ nRouted' = nRouted + 1
    /\ rooms' = [rooms EXCEPT ![g].fen = ToFen(FrameEffect(LoadFen(rooms[g].fen), msg))]
    /\ last' = [kind |-> "frame",
                req |-> [method |-> "GET",
                         path |-> [kind |-> "game", gameId |-> g, tail |-> "ws"],
                         upgrade |-> TRUE],
                frame |-> msg, to |-> g, resp |-> NoResponse]
    /\ UNCHANGED nMeetings
    /\ UNCHANGED <<roomVars, callVars, queueVars>>

RouterInit ==
    /\ rooms = [g \in RoomNames |-> NoRoom]
    /\ last = [kind |-> "none",
               req |-> [method |-> "GET",
                        path |-> [kind |-> "other", gameId |-> NoGameId, tail |-> ""],
                        upgrade |-> FALSE],
               frame |-> OtherFrame, to |-> "router", resp |-> NoResponse]
    /\ nRouted = 0
    /\ nMeetings = 0

(***************************************************************************)
(* Specifications: one per Durable Object entry point.                     *)
(***************************************************************************)
Init == RoomInit /\ CallInit /\ QueueInit /\ RouterInit

\* The Worker with its rooms.
RouterNext ==
    \/ \E request \in Requests, out \in Outcomes : Fetch(request, out)
    \/ \E g \in GameIds, msg \in Frames : RoomFrame(g, msg)

SpecRouter == Init /\ [][RouterNext]_vars

\* One GameRoom's channel traffic.
Next ==
    \/ \E c \in Channels : Connect(c)
    \/ \E c \in Channels : Disconnect(c)
    \/ \E c \in Channels, msg \in Frames : Send(c, msg)
    \/ Deliver
    \/ \E h \in 1..MaxFrames : GetDone(h)
    \/ \E h \in 1..MaxFrames : PutDone(h)
    \/ \E h \in 1..MaxFrames : PutFail(h)
    \/ Crash

Spec == Init /\ [][Next]_vars

\* A player moves after seeing the board: a frame is sent only when the room
\* has nothing pending.
TurnSend(c, msg) ==
    /\ arrivals = <<>>
    /\ DOMAIN handlers = {}
    /\ Send(c, msg)

\* One GameRoom whose players take turns, with channels that close, and no
\* storage failure.
TurnsNext ==
    \/ \E c \in Channels : Connect(c)
    \/ \E c \in Channels : Disconnect(c)
    \/ \E c \in Channels, msg \in Frames : TurnSend(c, msg)
    \/ Deliver
    \/ \E h \in 1..MaxFrames : GetDone(h)
    \/ \E h \in 1..MaxFrames : PutDone(h)

SpecTurns == Init /\ [][TurnsNext]_vars

\* The same room, with channels that go silent before they close.
BreakNext ==
    \/ TurnsNext
    \/ \E c \in Channels : Break(c)

SpecBreak == Init /\ [][BreakNext]_vars

\* One GameRoom whose channels are GamePage clients.
ClientsNext ==
    \/ \E c \in Channels : Connect(c)
    \/ \E c \in Channels : Disconnect(c)
    \/ \E c \in Channels, m \in InputMoves : ClientMove(c, m)
    \/ \E c \in Channels : ClientReset(c)
    \/ Deliver
    \/ \E h \in 1..MaxFrames : GetDone(h)
    \/ \E h \in 1..MaxFrames : PutDone(h)

SpecClients == Init /\ [][ClientsNext]_vars

\* One GameRoom with both its channel traffic and its POST /call requests.
RoomSend(c, msg) ==
    /\ nArrived + nCalls < MaxRequests
    /\ TurnSend(c, msg)

RoomCallStart ==
    /\ nArrived + nCalls < MaxRequests
    /\ CallStart

RoomNext ==
    \/ \E c \in Channels : Connect(c)
    \/ \E c \in Channels : Disconnect(c)
    \/ \E c \in Channels, msg \in Frames : RoomSend(c, msg)
    \/ Deliver
    \/ \E h \in 1..MaxFrames : GetDone(h)
    \/ \E h \in 1..MaxFrames : PutDone(h)
    \/ RoomCallStart
    \/ \E k \in 1..MaxCalls, ok \in BOOLEAN : CreateMeetingReturn(k, ok)
    \/ \E k \in 1..MaxCalls, ok \in BOOLEAN : AddParticipantReturn(k, ok)

SpecRoom == Init /\ [][RoomNext]_vars

\* One GameRoom's POST /call requests.
CallNext ==
    \/ CallStart
    \/ \E k \in 1..MaxCalls, ok \in BOOLEAN : CreateMeetingReturn(k, ok)
    \/ \E k \in 1..MaxCalls, ok \in BOOLEAN : AddParticipantReturn(k, ok)

SpecCall == Init /\ [][CallNext]_vars

\* The MatchingQueue's join requests.
QueueNext ==
    \/ \E body \in Bodies : JoinStart(body)
    \/ \E j \in 1..MaxJoins : JoinFinish(j)

SpecQueue == Init /\ [][QueueNext]_vars

(***************************************************************************)
(* Properties.                                                             *)
(***************************************************************************)
FrameIds == 1..MaxFrames

JoinIds == 1..MaxJoins

CallIds == 1..MaxCalls

\* Handler h took a step that was neither a storage failure nor a crash.
Stepped(h) ==
    /\ h \in DOMAIN handlers
    /\ nFaults' = nFaults
    /\ IF h \in DOMAIN handlers' THEN handlers'[h] # handlers[h] ELSE TRUE

SentFrom(h, c) == \E i \in DOMAIN outbox[c] : outbox[c][i].src = h

\* C1: starting from an EMPTY slot a join leaves the slot OCCUPIED; a join that
\* completes on an OCCUPIED slot under a different identifier leaves the slot
\* EMPTY and is answered "matched"; and no waiting entry is named as the peer
\* in more than one "matched" response.
PairingExactlyOnce ==
    /\ [](\A i, j \in JoinIds :
            (/\ i # j
             /\ joinResp[i].status = "matched"
             /\ joinResp[j].status = "matched")
            => joinResp[i].entry # joinResp[j].entry)
    /\ [][\A j \in DOMAIN joins :
            (j \notin DOMAIN joins' /\ joins[j].body.json)
            => /\ waiting = NoWaiting
                  => (waiting' # NoWaiting /\ joinResp'[j].status = "waiting")
               /\ (waiting # NoWaiting
                   /\ waiting.playerId # IncomingPlayerId(joins[j].body))
                  => (waiting' = NoWaiting /\ joinResp'[j].status = "matched")]_vars

\* C2: every POST /call of one room that succeeds returns the same meetingId,
\* and the media service creates one meeting for the room, not more.
OneMeetingPerRoom ==
    /\ \A i, j \in CallIds :
         (callResp[i].status = "ok" /\ callResp[j].status = "ok")
         => callResp[i].meetingId = callResp[j].meetingId
    /\ Len(created) <= 1

\* C3: after the room has processed a sequence of move frames, each legal when
\* it was processed, the stored position is the validator folded over the
\* sequence from the initial position.
LegalMovesFold ==
    (allLegal /\ nFaults = 0 /\ DOMAIN handlers = {} /\ fen # NoFen)
    => LET r == FoldMoves(NewChess, moveLog)
       IN r.ok /\ fen = ToFen(r.chess)

LegalMovesFoldWitness ==
    /\ allLegal /\ nFaults = 0 /\ DOMAIN handlers = {}
    /\ Len(moveLog) = 3
    /\ fen = ToFen(FoldMoves(NewChess, moveLog).chess)
    /\ \A h \in FrameIds : outcome[h] = "accepted"

\* C4: when the validator rejects a move against the stored position, the
\* handler ends there: the stored position and every channel's frames are as
\* before, and the room is free to take the next frame.
IllegalMoveDropped ==
    [][\A h \in DOMAIN handlers :
         (/\ Stepped(h)
          /\ handlers[h].pc = "get"
          /\ handlers[h].msg.type = "move"
          /\ ~Move(LoadFen(CurrentFen), handlers[h].msg.move).ok)
         => /\ h \notin DOMAIN handlers'
            /\ fen' = fen
            /\ outbox' = outbox
            /\ arrivals' = arrivals
            /\ InputGateOpen']_vars

IllegalMoveDroppedWitness ==
    /\ sockets # {}
    /\ \E h \in FrameIds :
         /\ outcome[h] = "rejected"
         /\ \A c \in Channels : ~SentFrom(h, c)
         /\ \E g \in FrameIds : g < h /\ outcome[g] = "accepted"
         /\ \E g \in FrameIds : g > h /\ outcome[g] = "accepted"

\* C5: when the write of an accepted move completes, the stored position is
\* the validator's result and every channel connected at that moment, and no
\* other, is sent one update frame carrying that position and the descriptor.
AcceptedMoveStoredAndSent ==
    [][\A h \in DOMAIN handlers :
         (/\ Stepped(h)
          /\ handlers[h].pc = "put"
          /\ handlers[h].msg.type = "move")
         => LET m == handlers[h].msg.move
                r == Move(LoadFen(CurrentFen), m)
            IN /\ r.ok
               /\ fen' = ToFen(r.chess)
               /\ \A c \in Channels :
                    outbox'[c] = IF c \in sockets
                                 THEN Append(outbox[c],
                                             [type |-> "update", fen |-> fen',
                                              lastMove |-> m, src |-> h])
                                 ELSE outbox[c]]_vars

\* Both channels connected once and stayed, so the mover is one of them.
AcceptedMoveStoredAndSentWitness ==
    /\ sockets = Channels /\ nConnects = 2
    /\ \E h \in FrameIds :
         /\ outcome[h] = "accepted"
         /\ \A c \in Channels :
              /\ outbox[c] # <<>>
              /\ outbox[c][Len(outbox[c])].src = h
              /\ outbox[c][Len(outbox[c])].fen = fen
              /\ outbox[c][Len(outbox[c])].lastMove \in InputMoves

\* C6: a frame is sent only by a handler whose write has completed, at a
\* moment when storage holds the position the frame carries; a handler stopped
\* before its write completed has sent nothing.
PersistBeforeBroadcast ==
    /\ [](\A c \in Channels : \A i \in DOMAIN outbox[c] :
            outcome[outbox[c][i].src] \in {"accepted", "reset"})
    /\ [][\A c \in Channels :
            outbox'[c] # outbox[c]
            => /\ Len(outbox'[c]) = Len(outbox[c]) + 1
               /\ outbox'[c][Len(outbox'[c])].fen = fen']_vars

PersistBeforeBroadcastWitness ==
    /\ sockets # {}
    /\ \E h \in FrameIds :
         /\ outcome[h] = "putFailed"
         /\ \A c \in Channels : ~SentFrom(h, c)
         /\ \E g \in FrameIds : g < h /\ outcome[g] = "accepted"
                                      /\ \E c \in sockets : SentFrom(g, c)

\* C7: a reset frame always goes on to store the initial position, whatever
\* is stored and whoever sent it, and when the write completes every connected
\* channel is sent an update frame carrying the initial position.
ResetRestoresInitial ==
    [][\A h \in DOMAIN handlers :
         (Stepped(h) /\ handlers[h].msg.type = "reset")
         => IF handlers[h].pc = "get"
            THEN /\ h \in DOMAIN handlers'
                 /\ handlers'[h].pc = "put"
                 /\ handlers'[h].newFen = ToFen(NewChess)
            ELSE /\ fen' = ToFen(NewChess)
                 /\ \A c \in Channels :
                      outbox'[c] = IF c \in sockets
                                   THEN Append(outbox[c],
                                               [type |-> "update",
                                                fen |-> ToFen(NewChess),
                                                lastMove |-> NoMove, src |-> h])
                                   ELSE outbox[c]]_vars

ResetRestoresInitialWitness ==
    /\ sockets = Channels
    /\ fen = ToFen(NewChess)
    /\ \E h \in FrameIds :
         /\ outcome[h] = "reset"
         /\ \E g \in FrameIds : g < h /\ outcome[g] = "accepted"
         /\ \A c \in Channels :
              /\ outbox[c] # <<>>
              /\ outbox[c][Len(outbox[c])].src = h
              /\ outbox[c][Len(outbox[c])].fen = ToFen(NewChess)

\* C8: once "meetingId" is stored, its value never changes.
MeetingIdNeverOverwritten ==
    [][meetingId # NoMeeting => meetingId' = meetingId]_vars

\* C9: at most one webSocketMessage invocation is between its start and its
\* end at a time, frames are taken in arrival order, and when nothing is
\* pending the stored position is the one obtained by applying the arrived
\* frames one at a time in arrival order.
FramesOneAtATime ==
    /\ Cardinality(DOMAIN handlers) <= 1
    /\ \A h \in DOMAIN handlers :
         /\ \A g \in 1..(h - 1) : outcome[g] # "none"
         /\ \A i \in DOMAIN arrivals : arrivals[i].id > h
    /\ (nFaults = 0 /\ arrivals = <<>> /\ DOMAIN handlers = {} /\ fen # NoFen)
       => fen = ToFen(arrivalChess)

\* A move of one channel is being written while a frame of the other waits.
FramesOneAtATimeWitness ==
    \E h \in DOMAIN handlers :
        /\ handlers[h].pc = "put"
        /\ handlers[h].msg.type = "move"
        /\ arrivals # <<>>
        /\ Head(arrivals).ch # handlers[h].ws
        /\ Head(arrivals).msg.type = "move"
        /\ Move(LoadFen(handlers[h].newFen), Head(arrivals).msg.move).ok

\* C10: two joins under distinct identifiers that read the same EMPTY slot are
\* not both answered "waiting", and two that read the same OCCUPIED slot are
\* not both matched with its waiting identifier.
ConcurrentJoinsSerialized ==
    \A i, j \in JoinIds :
        (/\ i # j
         /\ joinResp[i].status \in {"waiting", "matched"}
         /\ joinResp[j].status = joinResp[i].status
         /\ joinResp[i].as # joinResp[j].as
         /\ joinResp[i].seen = joinResp[j].seen)
        => /\ ~(joinResp[i].color = "white" /\ joinResp[j].color = "white")
           /\ ~(/\ joinResp[i].status = "matched"
                /\ joinResp[i].opponentId = joinResp[j].opponentId)

\* A join took its last step.
Finished(j) == j \in DOMAIN joins /\ j \notin DOMAIN joins'

\* gameId g is a generated identifier that no earlier response carries and
\* that is not the identifier the join was handled under.
FreshGameId(g, incoming) ==
    /\ g.kind = "uuid"
    /\ g # incoming
    /\ \A i \in JoinIds : joinResp[i].gameId # g

\* C11: a join that finds the slot EMPTY stores the identifier it is handled
\* under as the waiting entry and is answered "waiting" with a freshly
\* generated gameId and color "white".
JoinOnEmptyWaits ==
    [][\A j \in DOMAIN joins :
         (/\ Finished(j)
          /\ joins[j].body.json
          /\ joins[j].waitingPlayer = NoWaiting)
         => LET incoming == IncomingPlayerId(joins[j].body)
            IN /\ waiting'.playerId = incoming
               /\ incoming # NoId
               /\ joinResp'[j].status = "waiting"
               /\ joinResp'[j].color = "white"
               /\ joinResp'[j].opponentId = NoId
               /\ FreshGameId(joinResp'[j].gameId, incoming)]_vars

JoinOnEmptyWaitsWitness ==
    \E j \in JoinIds :
        /\ joinResp[j].status = "waiting"
        /\ joinResp[j].color = "white"
        /\ joinResp[j].gameId.kind = "uuid"
        /\ joinResp[j].as.kind = "uuid"
        /\ waiting.playerId = joinResp[j].as
        /\ DOMAIN joins = {}

\* C12: a join that finds the slot OCCUPIED by another identifier clears the
\* slot and is answered "matched" with a newly minted gameId, color "black"
\* and, as opponentId, the identifier it found waiting.
JoinOnOccupiedMatches ==
    [][\A j \in DOMAIN joins :
         (/\ Finished(j)
          /\ joins[j].body.json
          /\ joins[j].waitingPlayer # NoWaiting
          /\ joins[j].waitingPlayer.playerId # IncomingPlayerId(joins[j].body))
         => /\ waiting' = NoWaiting
            /\ joinResp'[j].status = "matched"
            /\ joinResp'[j].color = "black"
            /\ joinResp'[j].opponentId = joins[j].waitingPlayer.playerId
            /\ FreshGameId(joinResp'[j].gameId,
                           IncomingPlayerId(joins[j].body))]_vars

JoinOnOccupiedMatchesWitness ==
    /\ waiting = NoWaiting
    /\ DOMAIN joins = {}
    /\ \E i, j \in JoinIds :
         /\ i < j
         /\ joinResp[i].status = "waiting" /\ joinResp[i].color = "white"
         /\ joinResp[j].status = "matched" /\ joinResp[j].color = "black"
         /\ joinResp[j].opponentId = joinResp[i].as
         /\ joinResp[j].as # joinResp[i].as
         /\ joinResp[j].gameId # joinResp[i].gameId

\* C13: a join that finds its own identifier waiting is answered with the bare
\* {status: "waiting"} and writes nothing: the slot is as before, so a repeat
\* is answered the same and is never a match.
RetryKeepsWaiting ==
    [][\A j \in DOMAIN joins :
         (/\ Finished(j)
          /\ joins[j].body.json
          /\ joins[j].waitingPlayer # NoWaiting
          /\ joins[j].waitingPlayer.playerId = IncomingPlayerId(joins[j].body))
         => /\ waiting' = waiting
            /\ nWrites' = nWrites
            /\ joinResp'[j].status = "waiting"
            /\ joinResp'[j].gameId = NoId
            /\ joinResp'[j].color = ""
            /\ joinResp'[j].opponentId = NoId]_vars

\* The waiting player has asked twice more and is still the waiting entry.
RetryKeepsWaitingWitness ==
    /\ DOMAIN joins = {}
    /\ \E i, j, k \in JoinIds :
         /\ i < j /\ j < k
         /\ joinResp[i].status = "waiting" /\ joinResp[i].color = "white"
         /\ joinResp[j] = joinResp[k]
         /\ joinResp[j].status = "waiting" /\ joinResp[j].color = ""
         /\ joinResp[j].as = joinResp[i].as
         /\ waiting.playerId = joinResp[i].as
         /\ waiting.entry = joinResp[j].entry

\* C14: a frame that is not JSON, or a move frame without a usable descriptor,
\* ends like an illegal move: the stored position and every channel's frames
\* are as before, the handler returns instead of throwing, and the room takes
\* the next frame.
MalformedInputDropped ==
    /\ [](\A h \in FrameIds : outcome[h] # "threw")
    /\ [][\A h \in DOMAIN handlers :
            (/\ Stepped(h)
             /\ handlers[h].pc = "get"
             /\ handlers[h].msg = NoDescFrame)
            => /\ h \notin DOMAIN handlers'
               /\ outcome'[h] = "rejected"
               /\ fen' = fen
               /\ outbox' = outbox
               /\ InputGateOpen']_vars
    /\ [][(/\ arrivals # <<>>
           /\ arrivals' = Tail(arrivals)
           /\ Head(arrivals).msg = GarbageFrame)
          => /\ outcome'[Head(arrivals).id] = "rejected"
             /\ fen' = fen
             /\ outbox' = outbox
             /\ InputGateOpen']_vars

\* C15: when a broadcast meets a channel on which the send throws, the stored
\* position is the new one, every other connected channel is sent the update,
\* and the handler ends as an accepted move or a reset.
BroadcastSurvivesSendFailure ==
    [][\A h \in DOMAIN handlers :
         (/\ Stepped(h)
          /\ handlers[h].pc = "put"
          /\ broken # {})
         => LET msg == [type |-> "update", fen |-> handlers[h].newFen,
                        lastMove |-> handlers[h].msg.move, src |-> h]
            IN /\ fen' = handlers[h].newFen
               /\ \A c \in sockets \ broken : outbox'[c] = Append(outbox[c], msg)
               /\ \A c \in broken : outbox'[c] = outbox[c]
               /\ h \notin DOMAIN handlers'
               /\ outcome'[h] = IF handlers[h].msg.type = "move" THEN "accepted"
                                ELSE "reset"
               /\ sockets' = sockets]_vars

\* c1 received an earlier update and is still listed, so it was listed when
\* update h went out; it did not get h, c2 did.
BroadcastSurvivesSendFailureWitness ==
    /\ sockets = Channels /\ nConnects = 2
    /\ broken = {"c1"}
    /\ \E g, h \in FrameIds :
         /\ g < h
         /\ SentFrom(g, "c1")
         /\ outcome[h] = "accepted"
         /\ ~SentFrom(h, "c1")
         /\ SentFrom(h, "c2")
         /\ outbox["c2"][Len(outbox["c2"])].src = h
         /\ outbox["c2"][Len(outbox["c2"])].fen = fen

\* C16: a POST /call that ends without a participant token, because the
\* create-meeting or the add-participant call failed, answers {error} to its
\* own caller only; the step sends no frame and leaves the stored position and
\* the connected channels as they were.
CallFailureStaysWithCaller ==
    [][\A k \in DOMAIN calls :
         (k \notin DOMAIN calls' /\ nTokens' = nTokens)
         => /\ callResp'[k] = [status |-> "error", meetingId |-> NoMeeting,
                               authToken |-> 0]
            /\ \A i \in CallIds \ {k} : callResp'[i] = callResp[i]
            /\ calls' = Without(calls, k)
            /\ outbox' = outbox
            /\ fen' = fen
            /\ sockets' = sockets
            /\ handlers' = handlers /\ arrivals' = arrivals]_vars

\* A room with both channels connected and a move made, where one request got
\* {error} and another its token.
CallFailureStaysWithCallerWitness ==
    /\ sockets = Channels
    /\ fen \notin {NoFen, ToFen(NewChess)}
    /\ \E k, i \in CallIds :
         /\ callResp[k].status = "error"
         /\ callResp[i].status = "ok"
    /\ \A c \in Channels :
         /\ outbox[c] # <<>>
         /\ \A n \in DOMAIN outbox[c] : outbox[c][n].type = "update"

\* A /ws upgrade was served for channel c.
Connected(c) == c \notin sockets /\ c \in sockets' /\ nConnects' = nConnects + 1

\* C17: a connect admits the channel, and stores the starting position only
\* when no position is stored; a stored position is left as it is.
ConnectInitializesOnce ==
    [][\A c \in Channels :
         Connected(c)
         => /\ sockets' = sockets \cup {c}
            /\ fen = NoFen => fen' = ToFen(NewChess)
            /\ fen # NoFen => fen' = fen]_vars

\* c2 connected after update h went to c1, and the position of h is still
\* the stored one.
ConnectInitializesOnceWitness ==
    /\ sockets = Channels /\ nConnects = 2 /\ nFaults = 0
    /\ fen \notin {NoFen, ToFen(NewChess)}
    /\ outbox["c2"] = <<>>
    /\ \E h \in FrameIds :
         /\ outcome[h] = "accepted"
         /\ outbox["c1"][Len(outbox["c1"])].src = h
         /\ outbox["c1"][Len(outbox["c1"])].fen = fen

\* The position channel c's client shows: new Chess() until an update frame
\* arrives, then the position of the latest update (GamePage).
ClientFen(c) ==
    IF outbox[c] = <<>> THEN ToFen(NewChess) ELSE outbox[c][Len(outbox[c])].fen

\* C18: when a connect has been served, the channel it admitted has the
\* current stored position.
ConnectSendsSnapshot ==
    [][\A c \in Channels : Connected(c) => ClientFen(c)' = fen']_vars

\* C19: in a room one channel has left, a legal move from a channel that is
\* still connected is accepted, stored and sent to the connected channels, the
\* mover included, and the channel that left is sent nothing.
MoveAfterDisconnect ==
    [][\A h \in DOMAIN handlers :
         (/\ Stepped(h)
          /\ handlers[h].ws \in sockets \ broken
          /\ sockets # Channels
          /\ handlers[h].msg.type = "move"
          /\ Move(LoadFen(CurrentFen), handlers[h].msg.move).ok)
         => \/ /\ handlers[h].pc = "get"
               /\ handlers'[h].pc = "put"
               /\ fen' = fen /\ outbox' = outbox
            \/ /\ handlers[h].pc = "put"
               /\ h \notin DOMAIN handlers'
               /\ outcome'[h] = "accepted"
               /\ fen' = ToFen(Move(LoadFen(CurrentFen), handlers[h].msg.move).chess)
               /\ Len(outbox'[handlers[h].ws]) = Len(outbox[handlers[h].ws]) + 1
               /\ \A c \in Channels \ sockets : outbox'[c] = outbox[c]]_vars

\* Both channels got update 1.  c2 then left: update 2 went to c1 alone.  The
\* third frame was sent after that, so by c1, and was accepted and sent to c1
\* alone.
MoveAfterDisconnectWitness ==
    /\ sockets = {"c1"} /\ nConnects = 2 /\ nFaults = 0
    /\ SentFrom(1, "c1") /\ SentFrom(1, "c2")
    /\ SentFrom(2, "c1") /\ ~SentFrom(2, "c2")
    /\ outcome[3] = "accepted"
    /\ SentFrom(3, "c1") /\ ~SentFrom(3, "c2")
    /\ outbox["c1"][Len(outbox["c1"])].fen = fen

\* Every descriptor over the board, legal or not.
AllMoves == [from : Ranks, to : Ranks]

\* The positions the validator reaches from S.
RECURSIVE ReachableFrom(_)
ReachableFrom(S) ==
    LET T == S \cup {Move(chess, m).chess : chess \in S, m \in AllMoves}
    IN IF T = S THEN S ELSE ReachableFrom(T)

ReachableFens == {ToFen(chess) : chess \in ReachableFrom({NewChess})}

\* C20: the stored position, when there is one, is the starting position or a
\* position the validator reaches from it by moves it accepts.
StoredPositionReachable == fen = NoFen \/ fen \in ReachableFens

\* Two frames, one accepted and one not, and a video request have been served.
StoredPositionReachableWitness ==
    /\ fen \in ReachableFens \ {ToFen(NewChess)}
    /\ \E h, g \in FrameIds :
         /\ outcome[h] = "accepted"
         /\ outcome[g] \in {"rejected", "threw", "ignored"}
    /\ \E k \in CallIds : callResp[k].status # "none"
    /\ DOMAIN handlers = {} /\ DOMAIN calls = {}

\* C22: while a POST /call awaits the media service, the room starts no other
\* handler: no further /call, no connect, no frame.
RoomIdleWhileCallPending ==
    [][DOMAIN calls # {}
       => /\ nCalls' = nCalls
          /\ nConnects' = nConnects
          /\ DOMAIN handlers' \subseteq DOMAIN handlers]_vars

\* C23: every POST /call that succeeded was handed a token the media service
\* issued for it: the service has issued as many tokens as calls succeeded, and
\* no two responses carry the same one.
CredentialPerCall ==
    LET Ok == {k \in CallIds : callResp[k].status = "ok"}
    IN /\ \A k \in Ok : callResp[k].authToken \in 1..nTokens
       /\ \A i, j \in Ok : i # j => callResp[i].authToken # callResp[j].authToken
       /\ Cardinality(Ok) = nTokens

\* Three callers of one room, all served, two of them in the same meeting.
CredentialPerCallWitness ==
    /\ DOMAIN calls = {}
    /\ \A k \in 1..3 : callResp[k].status = "ok"
    /\ \E i, j \in 1..3 :
         /\ i # j
         /\ callResp[i].meetingId = callResp[j].meetingId
         /\ callResp[i].authToken # callResp[j].authToken

\* C24: when j was matched with the waiting identifier A, no response to A
\* carries j's gameId, and no response to j's identifier carries a gameId that
\* a response to A carries.
PairSharesNoGameId ==
    \A i, j, k \in JoinIds :
        (/\ joinResp[j].status = "matched"
         /\ joinResp[i].as = joinResp[j].opponentId
         /\ joinResp[k].as = joinResp[j].as)
        => /\ joinResp[i].gameId # joinResp[j].gameId
           /\ joinResp[i].gameId # NoId => joinResp[i].gameId # joinResp[k].gameId

\* A waits, B is matched with A, and A asks again: the slot being empty by
\* then, A is given another gameId, not B's.
PairSharesNoGameIdWitness ==
    /\ DOMAIN joins = {}
    /\ \E i, j, k \in JoinIds :
         /\ i < j /\ j < k
         /\ joinResp[i].status = "waiting" /\ joinResp[i].gameId # NoId
         /\ joinResp[j].status = "matched"
         /\ joinResp[j].opponentId = joinResp[i].as
         /\ joinResp[k].as = joinResp[i].as
         /\ joinResp[k].gameId \notin {NoId, joinResp[j].gameId}

\* The identifiers stored or used so far: the waiting entry, the entries read
\* by joins in flight, and every identifier in a response.
UsedIds ==
    {waiting.playerId}
      \cup {joins[j].waitingPlayer.playerId : j \in DOMAIN joins}
      \cup {joinResp[i].as : i \in JoinIds}
      \cup {joinResp[i].opponentId : i \in JoinIds}
      \cup {joinResp[i].gameId : i \in JoinIds}
      \cup ClientIds \cup {NoId}

\* C27: a join without playerId is handled under a generated identifier that
\* was not stored or used before; if it found the slot EMPTY that identifier
\* is the waiting entry afterwards, and if it found the slot OCCUPIED it is
\* answered "matched".
AnonymousJoinIsFresh ==
    [][\A j \in DOMAIN joins :
         (/\ Finished(j)
          /\ joins[j].body.json
          /\ joins[j].body.playerId = NoId)
         => /\ joinResp'[j].as.kind = "uuid"
            /\ joinResp'[j].as \notin UsedIds
            /\ joinResp'[j].as # joinResp'[j].gameId
            /\ IF joins[j].waitingPlayer = NoWaiting
               THEN /\ waiting'.playerId = joinResp'[j].as
                    /\ joinResp'[j].status = "waiting"
                    /\ joinResp'[j].color = "white"
               ELSE /\ joinResp'[j].status = "matched"
                    /\ waiting' = NoWaiting]_vars

\* Two joins without playerId: the first waits under a generated identifier,
\* the second is matched with it under another one.
AnonymousJoinIsFreshWitness ==
    /\ waiting = NoWaiting
    /\ DOMAIN joins = {}
    /\ \E i, j \in JoinIds :
         /\ i < j
         /\ joinResp[i].status = "waiting" /\ joinResp[i].as.kind = "uuid"
         /\ joinResp[j].status = "matched" /\ joinResp[j].as.kind = "uuid"
         /\ joinResp[j].opponentId = joinResp[i].as
         /\ joinResp[j].as # joinResp[i].as

\* Frames whose handler stored a position and broadcast it.
Stored == {h \in FrameIds : outcome[h] \in {"accepted", "reset"}}

AcceptanceIgnoresChannel ==
    [][\A h \in DOMAIN handlers :
         (/\ Stepped(h)
          /\ handlers[h].pc = "get"
          /\ handlers[h].msg.type = "move")
         => LET r == Move(LoadFen(fen), handlers[h].msg.move)
            IN IF r.ok
               THEN /\ h \in DOMAIN handlers'
                    /\ handlers'[h].pc = "put"
                    /\ handlers'[h].newFen = ToFen(r.chess)
               ELSE /\ h \notin DOMAIN handlers'
                    /\ outcome'[h] = "rejected"]_vars

\* Only c1 ever connected, and it has played White's move and then Black's.
AcceptanceIgnoresChannelWitness ==
    /\ nConnects = 1 /\ sockets = {"c1"}
    /\ outcome[1] = "accepted" /\ outcome[2] = "accepted"
    /\ SentFrom(1, "c1") /\ SentFrom(2, "c1")
    /\ fen.turn = "w" /\ fen.fullmove = 2

\* C29: when no frame is waiting and no handler is running, every connected
\* client shows the stored position.
ClientBoardsAgree ==
    (arrivals = <<>> /\ DOMAIN handlers = {})
    => \A c \in sockets : boards[c] = fen

MissingGameIdRejected ==
    (/\ last.kind = "http"
     /\ last.req.path.kind = "game"
     /\ last.req.path.gameId = NoGameId)
    => /\ last.resp.status = 400
       /\ last.to = "router"

\* C25, amended: such a request reaches no room, and unless it is an OPTIONS
\* preflight, which is answered before the path is looked at, it is answered
\* 400 by the router.
MissingGameIdRejectedUnlessPreflight ==
    /\ rooms[NoGameId] = NoRoom
    /\ (/\ last.kind = "http"
        /\ last.req.path.kind = "game"
        /\ last.req.path.gameId = NoGameId)
       => /\ last.to = "router"
          /\ last.req.method # "OPTIONS" => last.resp = Response(400, TRUE)

\* With a room already in use, a channel upgrade without gameId is refused.
MissingGameIdRejectedUnlessPreflightWitness ==
    /\ rooms["g1"].sockets > 0
    /\ last.kind = "http"
    /\ last.req = [method |-> "GET",
                   path |-> [kind |-> "game", gameId |-> NoGameId, tail |-> "ws"],
                   upgrade |-> TRUE]
    /\ last.resp.status = 400
    /\ last.to = "router"

\* C26: a response the router returns carries Access-Control-Allow-Origin: *,
\* except a 101, which is the room's own response, not rebuilt and without the
\* header.
CorsOnEveryResponse ==
    (last.kind = "http" /\ last.resp # NoResponse)
    => IF last.resp.status = 101
       THEN ~last.resp.rebuilt /\ ~last.resp.cors /\ last.to \in GameIds
       ELSE last.resp.cors

\* A room that has served an upgrade answers 426 to a plain GET of /ws; the
\* header on it is the router's.
CorsOnEveryResponseWitness ==
    /\ last.kind = "http"
    /\ last.to \in GameIds
    /\ rooms[last.to].sockets > 0
    /\ last.resp.status = 426
    /\ last.resp.cors /\ last.resp.rebuilt

\* C31: a frame that parses and whose type is neither "move" nor "reset" gets
\* a handler that reads the position and returns: the stored position and
\* every channel's frames are as before, and the handler ends without
\* throwing.
UnknownTypeIgnored ==
    /\ [][(/\ arrivals # <<>>
           /\ arrivals' = Tail(arrivals)
           /\ nFaults' = nFaults
           /\ Head(arrivals).msg.json
           /\ Head(arrivals).msg.type \notin {"move", "reset"})
          => /\ Head(arrivals).id \in DOMAIN handlers'
             /\ handlers'[Head(arrivals).id].pc = "get"
             /\ outcome' = outcome
             /\ fen' = fen
             /\ outbox' = outbox]_vars
    /\ [][\A h \in DOMAIN handlers :
            (/\ Stepped(h)
             /\ handlers[h].msg.json
             /\ handlers[h].msg.type \notin {"move", "reset"})
            => /\ handlers[h].pc = "get"
               /\ h \notin DOMAIN handlers'
               /\ outcome'[h] = "ignored"
               /\ fen' = fen
               /\ outbox' = outbox]_vars

\* After an accepted move, with a channel connected, a frame of another type
\* was handled: the stored position is the one that move broadcast.
UnknownTypeIgnoredWitness ==
    \E h \in FrameIds, g \in FrameIds :
      /\ g < h
      /\ outcome[g] = "accepted"
      /\ outcome[h] = "ignored"
      /\ fen # NoFen
      /\ \E c \in sockets :
           /\ outbox[c] # <<>>
           /\ outbox[c][Len(outbox[c])].src = g
           /\ outbox[c][Len(outbox[c])].fen = fen

\* C32: a POST /call whose create-meeting call fails stores nothing, and one
\* whose add-participant call fails leaves the stored meetingId as it is (its
\* own, if no later meeting was stored over it); a meetingId is stored exactly
\* when a creation has succeeded; and a POST /call that starts creates a
\* meeting when none is stored and otherwise goes on with the stored one,
\* creating nothing.
CallFailureKeepsMeeting ==
    /\ [](meetingId = NoMeeting <=> created = <<>>)
    /\ [][\A k \in DOMAIN calls :
            (k \notin DOMAIN calls' /\ calls[k].pc = "create")
            => /\ callResp'[k].status = "error"
               /\ meetingId' = meetingId
               /\ created' = created]_vars
    /\ [][\A k \in DOMAIN calls :
            (k \notin DOMAIN calls' /\ calls[k].pc = "add" /\ nTokens' = nTokens)
            => /\ callResp'[k].status = "error"
               /\ meetingId # NoMeeting
               /\ meetingId' = meetingId
               /\ created' = created
               /\ created[Len(created)] = k
                  => meetingId' = calls[k].meetingId]_vars
    /\ [][\A k \in DOMAIN calls' \ DOMAIN calls :
            IF meetingId = NoMeeting
            THEN calls'[k].pc = "create"
            ELSE calls'[k].pc = "add" /\ calls'[k].meetingId = meetingId]_vars
    /\ [][created' # created
          => \E k \in DOMAIN calls :
               /\ calls[k].pc = "create"
               /\ calls[k].meetingId = NoMeeting
               /\ created' = Append(created, k)]_vars

\* The first request failed to create a meeting, the second created one and
\* got no token, the third was served in the second's meeting; one meeting
\* exists.
CallFailureKeepsMeetingWitness ==
    /\ DOMAIN calls = {}
    /\ callResp[1].status = "error"
    /\ callResp[2].status = "error"
    /\ created = <<2>>
    /\ callResp[3].status = "ok"
    /\ callResp[3].meetingId = meetingId
    /\ meetingId # NoMeeting

\* C33: a "matched" response never names as opponentId the identifier its own
\* join was handled under.
NeverMatchedWithSelf ==
    \A j \in JoinIds :
      joinResp[j].status = "matched"
      => /\ joinResp[j].opponentId # joinResp[j].as
         /\ joinResp[j].opponentId # NoId
         /\ joinResp[j].as # NoId

\* An identifier waited, retried while waiting, and was then named as the
\* opponent of another identifier's join.
NeverMatchedWithSelfWitness ==
    \E i, j, k \in JoinIds :
      /\ i < j /\ j < k
      /\ joinResp[i].status = "waiting" /\ joinResp[i].color = "white"
      /\ joinResp[j].status = "waiting" /\ joinResp[j].color = ""
      /\ joinResp[j].as = joinResp[i].as
      /\ joinResp[k].status = "matched"
      /\ joinResp[k].opponentId = joinResp[i].as
      /\ joinResp[k].as # joinResp[i].as

\* C34: a join whose body is not JSON ends in an error and writes nothing:
\* from its arrival to its end the slot is changed by no step of that join, so
\* an entry that was waiting still waits and an empty slot is still empty.
UnreadableJoinKeepsSlot ==
    /\ [][\A j \in DOMAIN joins' \ DOMAIN joins :
            /\ waiting' = waiting
            /\ nWrites' = nWrites]_vars
    /\ [][\A j \in DOMAIN joins :
            (Finished(j) /\ ~joins[j].body.json)
            => /\ joinResp'[j].status = "error"
               /\ waiting' = waiting
               /\ nWrites' = nWrites
               /\ nUuid' = nUuid]_vars

\* An identifier waits; a join with an unreadable body has failed after it,
\* and so has one that arrived at the empty slot before it.
UnreadableJoinKeepsSlotWitness ==
    /\ DOMAIN joins = {}
    /\ waiting # NoWaiting
    /\ joinResp[1].status = "error"
    /\ joinResp[2].status = "waiting" /\ joinResp[2].color = "white"
    /\ joinResp[2].seen = 0
    /\ waiting.playerId = joinResp[2].as
    /\ joinResp[3].status = "error"
    /\ nWrites = 1

====
